---- MODULE Spec2Model ----
(***************************************************************************)
(* Model of TransactionOperations.Transfer                                 *)
(* (internal/temporalworkflows/activities/transaction_operations.go).      *)
(*                                                                         *)
(* Every call of a collaborator service (accounts.Service,                 *)
(* transactions.FinderOrCreator, transactions.Service) is one atomic step  *)
(* of the invocation that issues it; the local code between two service    *)
(* calls belongs to the step of the call before it.  An invocation is      *)
(* carried by a worker, Transfer starts one and Retry starts the next one  *)
(* of the same worker with identical TransferParams.                       *)
(***************************************************************************)
EXTENDS Integers, Sequences, FiniteSets, TLC

\* ---- bounds of the model ------------------------------------------------
MaxAmount == 2
MaxFee == 1
MaxBalance == 3
MaxCompleted == 2

\* ---- values ---------------------------------------------------------------
\* A Go pointer is modelled as a sequence: Nil, or Ptr(x) that holds x.
Nil == << >>
Ptr(x) == << x >>
Deref(p) == p[1]

Workers == {"w1", "w2"}
AccountIDs == {"acc1", "acc2"}

ACTIVE == "ACTIVE"
INACTIVE == "INACTIVE"
AccountStatuses == {ACTIVE, INACTIVE}

PENDING == "PENDING"
SUCCESS == "SUCCESS"

OUTBOUND == "OUTBOUND"
INBOUND == "INBOUND"
OUTGOINGFEE == "OUTGOING_FEE"

INCREASE == "INCREASE"
DECREASE == "DECREASE"

Amounts == 0..MaxAmount
FeeAmounts == {Nil} \cup { Ptr(f) : f \in 0..MaxFee }
Balances == 0..MaxBalance

\* The reference IDs a caller assigns to one transfer: source, destination, fee.
ReferenceTriples ==
    { [src |-> "s1", dst |-> "d1", fee |-> "f1"],
      [src |-> "s2", dst |-> "d2", fee |-> "f2"] }

TransferParams(amounts, fees, sources, destinations, refs) ==
    { [ Amount |-> a, FeeAmount |-> f,
        SourceAccountID |-> s, DestinationAccountID |-> d,
        SourceTransactionReferenceID |-> r.src,
        DestinationTransactionReferenceID |-> r.dst,
        FeeTransactionReferenceID |-> r.fee ] :
      a \in amounts, f \in fees, s \in sources, d \in destinations, r \in refs }

\* An account of the store: a record, or Nil where the account does not exist.
Account(id, status, balance) == [ID |-> id, Status |-> status, Balance |-> balance]

AccountStates(id, statuses, balances, mayBeMissing) ==
    { Ptr(Account(id, s, b)) : s \in statuses, b \in balances }
        \cup (IF mayBeMissing THEN {Nil} ELSE {})

VARIABLES
    accounts,       \* the account store: AccountIDs -> Ptr(Account) or Nil
    transactions,   \* the transaction store: a sequence of Transaction records
    pc,             \* per worker: the next step of its invocation
    completed,      \* per worker: how many invocations returned a result,
                    \* counted up to MaxCompleted
    params,         \* per worker: the TransferParams of its invocation
    validAccounts,  \* per worker: the accounts read by validateAccount
    pendingTrx,     \* per worker: the Transactions returned by find-or-create
    updatedTrx,     \* per worker: the Transactions returned by the status updates
    result,         \* per worker: what Transfer returned
    calls,          \* per worker: the service calls this invocation issued
    initial         \* the stores as they were before the first invocation

vars == << accounts, transactions, pc, completed, params, validAccounts,
           pendingTrx, updatedTrx, result, calls, initial >>

NoValidAccounts == [SourceAccount |-> Nil, DestinationAccount |-> Nil]
NoTrx == [Outgoing |-> Nil, Incoming |-> Nil, Fee |-> Nil]
NoResult == [kind |-> "none"]

Running(w) == pc[w] \notin {"idle", "done", "failed"}

\* ---- the collaborator services ------------------------------------------
\* accounts.Service.GetAccountByID: the account, or nil when there is none.
GetAccountByID(accts, id) == accts[id]

\* accounts.Service.UpdateBalance: one atomic single-row update.
UpdateBalance(accts, id, amount, operation) ==
    [accts EXCEPT ![id] =
        Ptr([Deref(@) EXCEPT !.Balance =
                IF operation = DECREASE THEN @ - amount ELSE @ + amount])]

Balance(accts, id) == Deref(accts[id]).Balance

\* The positions in the store of the Transactions with a reference ID.
WithReferenceID(trxs, ref) == { i \in 1..Len(trxs) : trxs[i].ReferenceID = ref }

Min(S) == CHOOSE x \in S : \A y \in S : x <= y

\* The store's insert: the draft gets the next identity.
CreateTransaction(trxs, draft) ==
    [ store |-> Append(trxs, [draft EXCEPT !.ID = Len(trxs) + 1]),
      trx   |-> Ptr([draft EXCEPT !.ID = Len(trxs) + 1]) ]

\* transactions.FinderOrCreator.Call: the Transaction that has the draft's
\* reference ID, unchanged, or else the draft, created.  Atomic per call.
FinderOrCreatorCall(trxs, draft) ==
    IF WithReferenceID(trxs, draft.ReferenceID) # {}
    THEN [ store |-> trxs,
           trx   |-> Ptr(trxs[Min(WithReferenceID(trxs, draft.ReferenceID))]) ]
    ELSE CreateTransaction(trxs, draft)

\* transactions.Service.UpdateTransactionStatus: a status assignment by identity.
UpdateTransactionStatus(trxs, id, status) ==
    [ store |-> [trxs EXCEPT ![id].Status = status],
      trx   |-> Ptr([trxs[id] EXCEPT !.Status = status]) ]

\* ---- errors ---------------------------------------------------------------
\* A plain Go error (fmt.Errorf, or the error a service returns): the engine
\* retries it.  cause is the message of the wrapped error, "" for none.
Error(message) ==
    [nonRetryable |-> FALSE, type |-> "", message |-> message, cause |-> ""]

\* temporal.NewApplicationError in its place: the same error, left retryable.
NewNonRetryableApplicationError_Retryable(message, type, cause) ==
    [nonRetryable |-> FALSE, type |-> type, message |-> message, cause |-> cause]

\* temporal.NewNonRetryableApplicationError(message, type, cause)
NewNonRetryableApplicationError(message, type, cause) ==
    [nonRetryable |-> TRUE, type |-> type, message |-> message, cause |-> cause]

AccountNotFound == "account not found"
AccountNotActive == "account is not active"
InsufficientBalance == "insufficient balance"
ServiceFailure(op) == Error(op \o " failed")

\* The error of a context that was cancelled (ctx.Err()), which a service call
\* made with that context returns.
ContextCanceled == "context canceled"

\* The errors a service call can fail with: a failure of its own, or the
\* cancellation of the context it was given.
ServiceErrors(op) == {ServiceFailure(op), Error(ContextCanceled)}

\* One entry of an invocation's log of service calls: the call, the account ID
\* or reference ID it names, its amount (the Transaction's ID for a status
\* update) and whether it succeeded.
Call(op, target, arg, ok) ==
    [op |-> op, target |-> target, arg |-> arg, ok |-> ok]

\* ---- validateAccount -------------------------------------------------------
\* The checks that follow the lookup of the source account: "" when they pass.
checkSourceAccount(sourceAccount) ==
    IF sourceAccount = Nil THEN AccountNotFound
    ELSE IF Deref(sourceAccount).Status # ACTIVE THEN AccountNotActive
    ELSE ""

totalAmount(transferAmount, feeAmount) ==
    IF feeAmount # Nil THEN transferAmount + Deref(feeAmount) ELSE transferAmount

\* The checks on the destination account without the balance check.
checkDestinationAccount_NoBalanceCheck(sourceAccount, destinationAccount, transferAmount, feeAmount) ==
    IF destinationAccount = Nil THEN AccountNotFound
    ELSE IF Deref(destinationAccount).Status # ACTIVE THEN AccountNotActive
    ELSE ""

\* The checks on the destination account with the balance check ahead of the
\* status check.
checkDestinationAccount_BalanceBeforeStatus(sourceAccount, destinationAccount, transferAmount, feeAmount) ==
    IF destinationAccount = Nil THEN AccountNotFound
    ELSE IF totalAmount(transferAmount, feeAmount) > Deref(sourceAccount).Balance
         THEN InsufficientBalance
    ELSE IF Deref(destinationAccount).Status # ACTIVE THEN AccountNotActive
    ELSE ""

\* The checks on the destination account with the balance check ahead of all.
checkDestinationAccount_BalanceFirst(sourceAccount, destinationAccount, transferAmount, feeAmount) ==
    IF totalAmount(transferAmount, feeAmount) > Deref(sourceAccount).Balance
    THEN InsufficientBalance
    ELSE IF destinationAccount = Nil THEN AccountNotFound
    ELSE IF Deref(destinationAccount).Status # ACTIVE THEN AccountNotActive
    ELSE ""

\* The checks on the destination account with a balance check that refuses a
\* total equal to the balance.
checkDestinationAccount_RefusesEqual(sourceAccount, destinationAccount, transferAmount, feeAmount) ==
    IF destinationAccount = Nil THEN AccountNotFound
    ELSE IF Deref(destinationAccount).Status # ACTIVE THEN AccountNotActive
    ELSE IF totalAmount(transferAmount, feeAmount) >= Deref(sourceAccount).Balance
         THEN InsufficientBalance
    ELSE ""

\* The checks that follow the lookup of the destination account.
checkDestinationAccount(sourceAccount, destinationAccount, transferAmount, feeAmount) ==
    IF destinationAccount = Nil THEN AccountNotFound
    ELSE IF Deref(destinationAccount).Status # ACTIVE THEN AccountNotActive
    ELSE IF totalAmount(transferAmount, feeAmount) > Deref(sourceAccount).Balance
         THEN InsufficientBalance
    ELSE ""

\* Transfer wraps every error of validateAccount the same way.
validateAccountsErr(accountsErr) ==
    NewNonRetryableApplicationError("Error on validating accounts",
                                    "validate-accounts-err", accountsErr.message)

\* ---- the drafts of the three Transactions ----------------------------------
\* UserID, CurrencyCode and Metadata are copied through and read by no step.
pendingOutgoingTransactionParams(p, sourceAccount) ==
    [ ID |-> 0, Amount |-> p.Amount, AccountID |-> sourceAccount.ID,
      ReferenceID |-> p.SourceTransactionReferenceID,
      Status |-> PENDING, TransactionType |-> OUTBOUND ]

\* The fee draft with the reference ID of the outgoing Transaction copied in.
pendingOutgoingFeeTransactionParams_SourceReference(p, sourceAccount) ==
    [ ID |-> 0, Amount |-> Deref(p.FeeAmount), AccountID |-> sourceAccount.ID,
      ReferenceID |-> p.SourceTransactionReferenceID,
      Status |-> PENDING, TransactionType |-> OUTGOINGFEE ]

pendingOutgoingFeeTransactionParams(p, sourceAccount) ==
    [ ID |-> 0, Amount |-> Deref(p.FeeAmount), AccountID |-> sourceAccount.ID,
      ReferenceID |-> p.FeeTransactionReferenceID,
      Status |-> PENDING, TransactionType |-> OUTGOINGFEE ]

\* The incoming draft with the final status in place of the pending one.
pendingIncomingTransactionParams_CreatedSuccess(p, destinationAccount) ==
    [ ID |-> 0, Amount |-> p.Amount, AccountID |-> destinationAccount.ID,
      ReferenceID |-> p.DestinationTransactionReferenceID,
      Status |-> SUCCESS, TransactionType |-> INBOUND ]

pendingIncomingTransactionParams(p, destinationAccount) ==
    [ ID |-> 0, Amount |-> p.Amount, AccountID |-> destinationAccount.ID,
      ReferenceID |-> p.DestinationTransactionReferenceID,
      Status |-> PENDING, TransactionType |-> INBOUND ]

\* A findOrCreateTransaction that inserts without looking the reference ID up.
findOrCreateTransaction_AlwaysCreates(trxs, draft) == CreateTransaction(trxs, draft)

findOrCreateTransaction(trxs, draft) == FinderOrCreatorCall(trxs, draft)

createTransferResult(p, outgoing, incoming, fee) ==
    [ SourceTransactionReferenceID |-> p.SourceTransactionReferenceID,
      DestinationTransactionReferenceID |-> p.DestinationTransactionReferenceID,
      FeeTransactionReferenceID |-> p.FeeTransactionReferenceID,
      FeeTransaction |-> fee,
      SourceTransaction |-> outgoing,
      DestinationTransaction |-> incoming ]

\* ---- the steps of one invocation -------------------------------------------
Logged(w, call) == calls' = [calls EXCEPT ![w] = Append(@, call)]

Goto(w, step) == pc' = [pc EXCEPT ![w] = step] /\ UNCHANGED completed

\* Transfer returns (nil, err).
ReturnError(w, err) ==
    /\ pc' = [pc EXCEPT ![w] = "failed"]
    /\ result' = [result EXCEPT ![w] = [kind |-> "error", err |-> err]]
    /\ UNCHANGED completed

\* Transfer returns (result, nil).
ReturnResult(w, res) ==
    /\ pc' = [pc EXCEPT ![w] = "done"]
    /\ result' = [result EXCEPT ![w] = [kind |-> "ok", value |-> res]]
    /\ completed' = [completed EXCEPT ![w] = IF @ < MaxCompleted THEN @ + 1 ELSE @]

\* The entry of Transfer: a fresh activation with its own locals.
Invoke(w, p) ==
    /\ pc' = [pc EXCEPT ![w] = "validateSource"]
    /\ params' = [params EXCEPT ![w] = p]
    /\ validAccounts' = [validAccounts EXCEPT ![w] = NoValidAccounts]
    /\ pendingTrx' = [pendingTrx EXCEPT ![w] = NoTrx]
    /\ updatedTrx' = [updatedTrx EXCEPT ![w] = NoTrx]
    /\ result' = [result EXCEPT ![w] = NoResult]
    /\ calls' = [calls EXCEPT ![w] = << >>]
    /\ UNCHANGED << accounts, transactions, completed, initial >>

\* validateAccount up to the checks on the source account.  The account the
\* lookup returned stays in the local sourceAccount whatever the checks say.
validateAccount_Source(w) ==
    /\ pc[w] = "validateSource"
    /\ \E ok \in BOOLEAN :
        LET id == params[w].SourceAccountID
            sourceAccount == GetAccountByID(accounts, id)
            failure == checkSourceAccount(sourceAccount)
        IN  /\ Logged(w, Call("GetAccountByID", id, 0, ok))
            /\ IF ~ok
               THEN /\ (\E err \in ServiceErrors("GetAccountByID") :
                        ReturnError(w, validateAccountsErr(err)))
                    /\ UNCHANGED validAccounts
               ELSE /\ validAccounts' =
                         [validAccounts EXCEPT ![w].SourceAccount = sourceAccount]
                    /\ IF failure # ""
                       THEN ReturnError(w, validateAccountsErr(Error(failure)))
                       ELSE Goto(w, "validateDestination") /\ UNCHANGED result
    /\ UNCHANGED << accounts, transactions, params, pendingTrx,
                    updatedTrx, initial >>

\* A validateAccount that has the outgoing Transaction materialized by the time
\* the checks on the destination account fail.
validateAccount_Destination_MaterializesFirst(w) ==
    /\ pc[w] = "validateDestination"
    /\ \E ok \in BOOLEAN :
        LET id == params[w].DestinationAccountID
            destinationAccount == GetAccountByID(accounts, id)
            failure == checkDestinationAccount(validAccounts[w].SourceAccount,
                           destinationAccount, params[w].Amount, params[w].FeeAmount)
            draft == pendingOutgoingTransactionParams(params[w],
                         Deref(validAccounts[w].SourceAccount))
        IN  IF ~ok
            THEN /\ Logged(w, Call("GetAccountByID", id, 0, ok))
                 /\ (\E err \in ServiceErrors("GetAccountByID") :
                        ReturnError(w, validateAccountsErr(err)))
                 /\ UNCHANGED << validAccounts, transactions >>
            ELSE /\ validAccounts' =
                      [validAccounts EXCEPT ![w].DestinationAccount = destinationAccount]
                 /\ IF failure # ""
                    THEN /\ calls' = [calls EXCEPT ![w] =
                                @ \o << Call("GetAccountByID", id, 0, ok),
                                        Call("FinderOrCreator.Call", draft.ReferenceID,
                                             draft.Amount, TRUE) >>]
                         /\ transactions' = findOrCreateTransaction(transactions, draft).store
                         /\ ReturnError(w, validateAccountsErr(Error(failure)))
                    ELSE /\ Logged(w, Call("GetAccountByID", id, 0, ok))
                         /\ Goto(w, "createOutgoing")
                         /\ UNCHANGED << result, transactions >>
    /\ UNCHANGED << accounts, params, pendingTrx, updatedTrx, initial >>

\* validateAccount from the lookup of the destination account on.
validateAccount_Destination(w) ==
    /\ pc[w] = "validateDestination"
    /\ \E ok \in BOOLEAN :
        LET id == params[w].DestinationAccountID
            destinationAccount == GetAccountByID(accounts, id)
            failure == checkDestinationAccount(validAccounts[w].SourceAccount,
                           destinationAccount, params[w].Amount, params[w].FeeAmount)
        IN  /\ Logged(w, Call("GetAccountByID", id, 0, ok))
            /\ IF ~ok
               THEN /\ (\E err \in ServiceErrors("GetAccountByID") :
                        ReturnError(w, validateAccountsErr(err)))
                    /\ UNCHANGED validAccounts
               ELSE /\ validAccounts' =
                         [validAccounts EXCEPT ![w].DestinationAccount = destinationAccount]
                    /\ IF failure # ""
                       THEN ReturnError(w, validateAccountsErr(Error(failure)))
                       ELSE Goto(w, "createOutgoing") /\ UNCHANGED result
    /\ UNCHANGED << accounts, transactions, params, pendingTrx,
                    updatedTrx, initial >>

\* createPendingOutgoingTransaction, and the nil check of
\* createPendingFeeTransaction that follows it without a service call.
createPendingOutgoingTransaction(w) ==
    /\ pc[w] = "createOutgoing"
    /\ \E ok \in BOOLEAN :
        LET draft == pendingOutgoingTransactionParams(params[w],
                         Deref(validAccounts[w].SourceAccount))
            found == findOrCreateTransaction(transactions, draft)
        IN  /\ Logged(w, Call("FinderOrCreator.Call", draft.ReferenceID, draft.Amount, ok))
            /\ IF ~ok
               THEN /\ (\E err \in ServiceErrors("FinderOrCreator.Call") :
                        ReturnError(w, NewNonRetryableApplicationError(
                            err.message, "error while creating pending outgoing trx", "")))
                    /\ UNCHANGED << transactions, pendingTrx >>
               ELSE /\ transactions' = found.store
                    /\ pendingTrx' = [pendingTrx EXCEPT ![w].Outgoing = found.trx]
                    /\ Goto(w, IF params[w].FeeAmount = Nil
                               THEN "createIncoming" ELSE "createFee")
                    /\ UNCHANGED result
    /\ UNCHANGED << accounts, params, validAccounts, updatedTrx, initial >>

\* createPendingFeeTransaction when params.FeeAmount is not nil.
createPendingFeeTransaction(w) ==
    /\ pc[w] = "createFee"
    /\ \E ok \in BOOLEAN :
        LET draft == pendingOutgoingFeeTransactionParams(params[w],
                         Deref(validAccounts[w].SourceAccount))
            found == findOrCreateTransaction(transactions, draft)
        IN  /\ Logged(w, Call("FinderOrCreator.Call", draft.ReferenceID, draft.Amount, ok))
            /\ IF ~ok
               THEN /\ (\E err \in ServiceErrors("FinderOrCreator.Call") :
                        ReturnError(w, NewNonRetryableApplicationError(
                            err.message, "error while creating pending outgoing fee trx", "")))
                    /\ UNCHANGED << transactions, pendingTrx >>
               ELSE /\ transactions' = found.store
                    /\ pendingTrx' = [pendingTrx EXCEPT ![w].Fee = found.trx]
                    /\ Goto(w, "createIncoming")
                    /\ UNCHANGED result
    /\ UNCHANGED << accounts, params, validAccounts, updatedTrx, initial >>

\* Transfer without the check of the incoming materialization's error: the
\* balance updater runs whatever find-or-create returned.
createPendingIncomingTransaction_IgnoresError(w) ==
    /\ pc[w] = "createIncoming"
    /\ \E ok \in BOOLEAN :
        LET draft == pendingIncomingTransactionParams(params[w],
                         Deref(validAccounts[w].DestinationAccount))
            found == findOrCreateTransaction(transactions, draft)
        IN  /\ Logged(w, Call("FinderOrCreator.Call", draft.ReferenceID, draft.Amount, ok))
            /\ IF ~ok
               THEN UNCHANGED << transactions, pendingTrx >>
               ELSE /\ transactions' = found.store
                    /\ pendingTrx' = [pendingTrx EXCEPT ![w].Incoming = found.trx]
            /\ Goto(w, "decrease")
            /\ UNCHANGED result
    /\ UNCHANGED << accounts, params, validAccounts, updatedTrx, initial >>

createPendingIncomingTransaction(w) ==
    /\ pc[w] = "createIncoming"
    /\ \E ok \in BOOLEAN :
        LET draft == pendingIncomingTransactionParams(params[w],
                         Deref(validAccounts[w].DestinationAccount))
            found == findOrCreateTransaction(transactions, draft)
        IN  /\ Logged(w, Call("FinderOrCreator.Call", draft.ReferenceID, draft.Amount, ok))
            /\ IF ~ok
               THEN /\ (\E err \in ServiceErrors("FinderOrCreator.Call") :
                        ReturnError(w, NewNonRetryableApplicationError(
                            err.message, "error while creating pending incoming trx", "")))
                    /\ UNCHANGED << transactions, pendingTrx >>
               ELSE /\ transactions' = found.store
                    /\ pendingTrx' = [pendingTrx EXCEPT ![w].Incoming = found.trx]
                    /\ Goto(w, "decrease")
                    /\ UNCHANGED result
    /\ UNCHANGED << accounts, params, validAccounts, updatedTrx, initial >>

\* A decrease that looks at the balance again and refuses to overdraw it.
updateAccountBalances_Decrease_Rechecks(w) ==
    /\ pc[w] = "decrease"
    /\ \E ok \in BOOLEAN :
        LET id == Deref(validAccounts[w].SourceAccount).ID
        IN  /\ Logged(w, Call("UpdateBalance.DECREASE", id, params[w].Amount, ok))
            /\ IF ~ok \/ params[w].Amount > Balance(accounts, id)
               THEN /\ (\E err \in ServiceErrors("UpdateBalance") :
                        ReturnError(w, err))
                    /\ UNCHANGED accounts
               ELSE /\ accounts' = UpdateBalance(accounts, id, params[w].Amount, DECREASE)
                    /\ Goto(w, "increase")
                    /\ UNCHANGED result
    /\ UNCHANGED << transactions, params, validAccounts, pendingTrx,
                    updatedTrx, initial >>

\* updateAccountBalances without the check of the decrease's error: the
\* increase is issued whatever the decrease returned.
updateAccountBalances_Decrease_IgnoresError(w) ==
    /\ pc[w] = "decrease"
    /\ \E ok \in BOOLEAN :
        LET id == Deref(validAccounts[w].SourceAccount).ID
        IN  /\ Logged(w, Call("UpdateBalance.DECREASE", id, params[w].Amount, ok))
            /\ accounts' = IF ok THEN UpdateBalance(accounts, id, params[w].Amount, DECREASE)
                                 ELSE accounts
            /\ Goto(w, "increase")
            /\ UNCHANGED result
    /\ UNCHANGED << transactions, params, validAccounts, pendingTrx,
                    updatedTrx, initial >>

\* updateAccountBalances: the decrease of the source account.
updateAccountBalances_Decrease(w) ==
    /\ pc[w] = "decrease"
    /\ \E ok \in BOOLEAN :
        LET id == Deref(validAccounts[w].SourceAccount).ID
        IN  /\ Logged(w, Call("UpdateBalance.DECREASE", id, params[w].Amount, ok))
            /\ IF ~ok
               THEN /\ (\E err \in ServiceErrors("UpdateBalance") :
                        ReturnError(w, err))
                    /\ UNCHANGED accounts
               ELSE /\ accounts' = UpdateBalance(accounts, id, params[w].Amount, DECREASE)
                    /\ Goto(w, "increase")
                    /\ UNCHANGED result
    /\ UNCHANGED << transactions, params, validAccounts, pendingTrx,
                    updatedTrx, initial >>

\* updateAccountBalances with the operation of its first call repeated in the
\* second: the destination is decreased too.
updateAccountBalances_Increase_Decreases(w) ==
    /\ pc[w] = "increase"
    /\ \E ok \in BOOLEAN :
        LET id == Deref(validAccounts[w].DestinationAccount).ID
        IN  /\ Logged(w, Call("UpdateBalance.INCREASE", id, params[w].Amount, ok))
            /\ IF ~ok
               THEN /\ (\E err \in ServiceErrors("UpdateBalance") :
                        ReturnError(w, err))
                    /\ UNCHANGED accounts
               ELSE /\ accounts' = UpdateBalance(accounts, id, params[w].Amount, DECREASE)
                    /\ Goto(w, "finalizeOutgoing")
                    /\ UNCHANGED result
    /\ UNCHANGED << transactions, params, validAccounts, pendingTrx,
                    updatedTrx, initial >>

\* updateAccountBalances: the increase of the destination account.
updateAccountBalances_Increase(w) ==
    /\ pc[w] = "increase"
    /\ \E ok \in BOOLEAN :
        LET id == Deref(validAccounts[w].DestinationAccount).ID
        IN  /\ Logged(w, Call("UpdateBalance.INCREASE", id, params[w].Amount, ok))
            /\ IF ~ok
               THEN /\ (\E err \in ServiceErrors("UpdateBalance") :
                        ReturnError(w, err))
                    /\ UNCHANGED accounts
               ELSE /\ accounts' = UpdateBalance(accounts, id, params[w].Amount, INCREASE)
                    /\ Goto(w, "finalizeOutgoing")
                    /\ UNCHANGED result
    /\ UNCHANGED << transactions, params, validAccounts, pendingTrx,
                    updatedTrx, initial >>

\* finalizeTransactions with the incoming Transaction passed to its first
\* update: the incoming Transaction is set SUCCESS twice, the outgoing never.
finalizeTransactions_Outgoing_UpdatesIncoming(w) ==
    /\ pc[w] = "finalizeOutgoing"
    /\ \E ok \in BOOLEAN :
        LET id == Deref(pendingTrx[w].Incoming).ID
            updated == UpdateTransactionStatus(transactions, id, SUCCESS)
        IN  /\ Logged(w, Call("UpdateTransactionStatus", Deref(pendingTrx[w].Incoming).ReferenceID, id, ok))
            /\ IF ~ok
               THEN /\ (\E err \in ServiceErrors("UpdateTransactionStatus") :
                        ReturnError(w, err))
                    /\ UNCHANGED << transactions, updatedTrx >>
               ELSE /\ transactions' = updated.store
                    /\ updatedTrx' = [updatedTrx EXCEPT ![w].Outgoing = updated.trx]
                    /\ Goto(w, "finalizeIncoming")
                    /\ UNCHANGED result
    /\ UNCHANGED << accounts, params, validAccounts, pendingTrx, initial >>

\* finalizeTransactions: the status update of the outgoing Transaction.
finalizeTransactions_Outgoing(w) ==
    /\ pc[w] = "finalizeOutgoing"
    /\ \E ok \in BOOLEAN :
        LET id == Deref(pendingTrx[w].Outgoing).ID
            updated == UpdateTransactionStatus(transactions, id, SUCCESS)
        IN  /\ Logged(w, Call("UpdateTransactionStatus", Deref(pendingTrx[w].Outgoing).ReferenceID, id, ok))
            /\ IF ~ok
               THEN /\ (\E err \in ServiceErrors("UpdateTransactionStatus") :
                        ReturnError(w, err))
                    /\ UNCHANGED << transactions, updatedTrx >>
               ELSE /\ transactions' = updated.store
                    /\ updatedTrx' = [updatedTrx EXCEPT ![w].Outgoing = updated.trx]
                    /\ Goto(w, "finalizeIncoming")
                    /\ UNCHANGED result
    /\ UNCHANGED << accounts, params, validAccounts, pendingTrx, initial >>

\* finalizeTransactions without its update of the fee Transaction: the result is
\* assembled after the incoming update with the fee Transaction as materialized.
finalizeTransactions_Incoming_SkipsFee(w) ==
    /\ pc[w] = "finalizeIncoming"
    /\ \E ok \in BOOLEAN :
        LET id == Deref(pendingTrx[w].Incoming).ID
            updated == UpdateTransactionStatus(transactions, id, SUCCESS)
        IN  /\ Logged(w, Call("UpdateTransactionStatus", Deref(pendingTrx[w].Incoming).ReferenceID, id, ok))
            /\ IF ~ok
               THEN /\ (\E err \in ServiceErrors("UpdateTransactionStatus") :
                        ReturnError(w, err))
                    /\ UNCHANGED << transactions, updatedTrx >>
               ELSE /\ transactions' = updated.store
                    /\ updatedTrx' = [updatedTrx EXCEPT ![w].Incoming = updated.trx]
                    /\ ReturnResult(w, createTransferResult(params[w],
                           updatedTrx[w].Outgoing, updated.trx, pendingTrx[w].Fee))
    /\ UNCHANGED << accounts, params, validAccounts, pendingTrx, initial >>

\* finalizeTransactions: the status update of the incoming Transaction; with no
\* fee Transaction the result is assembled and returned without a further call.
finalizeTransactions_Incoming(w) ==
    /\ pc[w] = "finalizeIncoming"
    /\ \E ok \in BOOLEAN :
        LET id == Deref(pendingTrx[w].Incoming).ID
            updated == UpdateTransactionStatus(transactions, id, SUCCESS)
        IN  /\ Logged(w, Call("UpdateTransactionStatus", Deref(pendingTrx[w].Incoming).ReferenceID, id, ok))
            /\ IF ~ok
               THEN /\ (\E err \in ServiceErrors("UpdateTransactionStatus") :
                        ReturnError(w, err))
                    /\ UNCHANGED << transactions, updatedTrx >>
               ELSE /\ transactions' = updated.store
                    /\ updatedTrx' = [updatedTrx EXCEPT ![w].Incoming = updated.trx]
                    /\ IF pendingTrx[w].Fee # Nil
                       THEN Goto(w, "finalizeFee") /\ UNCHANGED result
                       ELSE ReturnResult(w, createTransferResult(params[w],
                                updatedTrx[w].Outgoing, updated.trx, Nil))
    /\ UNCHANGED << accounts, params, validAccounts, pendingTrx, initial >>

\* finalizeTransactions: the status update of the fee Transaction, then the
\* assembly of the result.  Before the call, fee.Status = SUCCESS (line 190)
\* writes through the pointer Transfer holds as pendingFeeTrx: the held fee
\* Transaction says SUCCESS from here on, also when the update then fails and
\* the store still says PENDING.
finalizeTransactions_Fee(w) ==
    /\ pc[w] = "finalizeFee"
    /\ pendingTrx' = [pendingTrx EXCEPT
                         ![w].Fee = Ptr([Deref(@) EXCEPT !.Status = SUCCESS])]
    /\ \E ok \in BOOLEAN :
        LET id == Deref(pendingTrx[w].Fee).ID
            updated == UpdateTransactionStatus(transactions, id, SUCCESS)
        IN  /\ Logged(w, Call("UpdateTransactionStatus", Deref(pendingTrx[w].Fee).ReferenceID, id, ok))
            /\ IF ~ok
               THEN /\ (\E err \in ServiceErrors("UpdateTransactionStatus") :
                        ReturnError(w, err))
                    /\ UNCHANGED << transactions, updatedTrx >>
               ELSE /\ transactions' = updated.store
                    /\ updatedTrx' = [updatedTrx EXCEPT ![w].Fee = updated.trx]
                    /\ ReturnResult(w, createTransferResult(params[w],
                           updatedTrx[w].Outgoing, updatedTrx[w].Incoming, updated.trx))
    /\ UNCHANGED << accounts, params, validAccounts, initial >>

\* One step of the invocation a worker carries.
Step(w) ==
    \/ validateAccount_Source(w)
    \/ validateAccount_Destination(w)
    \/ createPendingOutgoingTransaction(w)
    \/ createPendingFeeTransaction(w)
    \/ createPendingIncomingTransaction(w)
    \/ updateAccountBalances_Decrease(w)
    \/ updateAccountBalances_Increase(w)
    \/ finalizeTransactions_Outgoing(w)
    \/ finalizeTransactions_Incoming(w)
    \/ finalizeTransactions_Fee(w)

\* ---- the initial states ------------------------------------------------------
InitWorkers ==
    /\ transactions = << >>
    /\ pc = [w \in Workers |-> "idle"]
    /\ completed = [w \in Workers |-> 0]
    /\ params = [w \in Workers |-> Nil]
    /\ validAccounts = [w \in Workers |-> NoValidAccounts]
    /\ pendingTrx = [w \in Workers |-> NoTrx]
    /\ updatedTrx = [w \in Workers |-> NoTrx]
    /\ result = [w \in Workers |-> NoResult]
    /\ calls = [w \in Workers |-> << >>]
    /\ initial = accounts

InitAccounts(statuses, balances, mayBeMissing) ==
    accounts \in
        { f \in [AccountIDs -> UNION { AccountStates(id, statuses, balances, mayBeMissing) :
                                        id \in AccountIDs }] :
            \A id \in AccountIDs :
                f[id] \in AccountStates(id, statuses, balances, mayBeMissing) }

\* ---- the engine -------------------------------------------------------------
\* The engine calls Transfer for a transfer it has not run before.
Transfer(w, choices) ==
    /\ pc[w] = "idle"
    /\ \E p \in choices : Invoke(w, p)

\* The engine calls Transfer again with the TransferParams of the invocation
\* that has returned.
Retry(w) ==
    /\ pc[w] \in {"done", "failed"}
    /\ Invoke(w, params[w])

\* ---- concurrent invocations --------------------------------------------------
\* Two transfers run at the same time, one invocation each.  The first draws on
\* acc1 and carries a fee; the second draws on acc1 too, with the first one's
\* reference IDs or its own, or sends back from acc2 under its own reference
\* IDs.
ConcurrentParams(w) ==
    IF w = "w1"
    THEN TransferParams(1..MaxAmount, {Ptr(MaxFee)}, {"acc1"}, {"acc2"},
                        { r \in ReferenceTriples : r.src = "s1" })
    ELSE TransferParams(1..MaxAmount, {Nil, Ptr(MaxFee)}, {"acc1"}, {"acc2"},
                        ReferenceTriples)
         \cup TransferParams(1..MaxAmount, {Nil}, {"acc2"}, {"acc1"},
                        { r \in ReferenceTriples : r.src = "s2" })

Init ==
    /\ InitAccounts({ACTIVE}, Balances, FALSE)
    /\ InitWorkers

Next ==
    \E w \in Workers :
        \/ Transfer(w, ConcurrentParams(w))
        \/ Step(w)

Spec == Init /\ [][Next]_vars

\* ---- one transfer, invoked again and again -----------------------------------
\* Any accounts, any TransferParams; the engine re-invokes Transfer with the
\* same TransferParams whenever it has returned.
RetryParams ==
    TransferParams(Amounts, FeeAmounts, AccountIDs, AccountIDs,
                   { r \in ReferenceTriples : r.src = "s1" })

InitRetry ==
    /\ InitAccounts(AccountStatuses, Balances, TRUE)
    /\ InitWorkers

NextRetry ==
    \/ Transfer("w1", RetryParams)
    \/ Retry("w1")
    \/ Step("w1")

SpecRetry == InitRetry /\ [][NextRetry]_vars

\* ---- what the claims speak of ------------------------------------------------
\* The fee of an invocation: 0 when FeeAmount is nil.
Fee(p) == IF p.FeeAmount = Nil THEN 0 ELSE Deref(p.FeeAmount)

Returned(w) == pc[w] = "done"

\* The invocation moves money between two different accounts.
TwoAccounts(w) == params[w].SourceAccountID # params[w].DestinationAccountID

\* C1 (as claimed): balance conservation.  When Transfer has returned a result
\* and no other invocation has run, the source account holds its balance of
\* before the invocation minus Amount + fee and the destination account its
\* balance of before plus Amount.
C1_BalanceConservation ==
    \A w \in Workers :
        (Returned(w) /\ TwoAccounts(w) /\ \A v \in Workers \ {w} : pc[v] = "idle") =>
            /\ Balance(accounts, params[w].SourceAccountID) =
                   Balance(initial, params[w].SourceAccountID)
                       - (params[w].Amount + Fee(params[w]))
            /\ Balance(accounts, params[w].DestinationAccountID) =
                   Balance(initial, params[w].DestinationAccountID) + params[w].Amount

\* The account store a single failure-free execution of Transfer leaves behind.
FailureFree(accts, p) ==
    UpdateBalance(UpdateBalance(accts, p.SourceAccountID, p.Amount, DECREASE),
                  p.DestinationAccountID, p.Amount, INCREASE)

\* C2 (as claimed): safe re-execution.  When Transfer, re-invoked with the same
\* TransferParams after its failures, returns a result for the first time, the
\* account store is the one a single failure-free execution leaves: the source
\* is debited once and the destination credited once.
C2_SafeReexecution ==
    \A w \in Workers :
        (Returned(w) /\ completed[w] = 1 /\ TwoAccounts(w)) =>
            accounts = FailureFree(initial, params[w])

\* C3 (as claimed): DONE is reached once per set of reference IDs.  Once an
\* invocation has returned a result, no later invocation with the same
\* reference IDs returns a result again or moves a balance.
C3_DoneOnce ==
    [][ \A w \in Workers :
            (completed[w] >= 1 /\ TwoAccounts(w)) =>
                (completed'[w] = completed[w] /\ accounts' = accounts) ]_vars

\* The Transactions an invocation holds, with the reference ID it asked for.
Held(w) ==
    IF pc[w] = "idle" THEN {} ELSE
    { h \in { [trx |-> pendingTrx[w].Outgoing, ref |-> params[w].SourceTransactionReferenceID],
              [trx |-> pendingTrx[w].Fee, ref |-> params[w].FeeTransactionReferenceID],
              [trx |-> pendingTrx[w].Incoming, ref |-> params[w].DestinationTransactionReferenceID] } :
        h.trx # Nil }

\* C4: idempotent materialization.  The store holds at most one Transaction
\* per reference ID, and the Transaction find-or-create handed to an
\* invocation is the stored one with the reference ID asked for: same
\* identity, same account, amount and type.
C4_OneTransactionPerReferenceID ==
    /\ \A i, j \in 1..Len(transactions) :
           transactions[i].ReferenceID = transactions[j].ReferenceID => i = j
    /\ \A w \in Workers : \A h \in Held(w) :
           /\ Deref(h.trx).ID \in 1..Len(transactions)
           /\ Deref(h.trx).ReferenceID = h.ref
           /\ [transactions[Deref(h.trx).ID] EXCEPT !.Status = PENDING] =
                  [Deref(h.trx) EXCEPT !.Status = PENDING]

\* Two invocations at work at the same time have materialized the same
\* reference ID and hold the same Transaction, which the second did not create.
C4_Witness ==
    \E w, v \in Workers :
        /\ w # v /\ Running(w) /\ Running(v)
        /\ pendingTrx[w].Outgoing # Nil /\ pendingTrx[v].Outgoing # Nil
        /\ Deref(pendingTrx[w].Outgoing).ID = Deref(pendingTrx[v].Outgoing).ID
        /\ params[w].Amount # params[v].Amount
        /\ Len(transactions) = 1

\* C5: non-negative balance.  Through non-overlapping invocations, failed and
\* retried ones included, with Amount >= 0 and a fee absent or >= 0, no
\* account balance is negative.
C5_NonNegativeBalance ==
    \A id \in AccountIDs : accounts[id] # Nil => Balance(accounts, id) >= 0

\* A retry has passed validation and taken the source account down to zero.
C5_Witness ==
    \E w \in Workers :
        /\ completed[w] >= 1 /\ pc[w] = "increase" /\ params[w].Amount > 0
        /\ TwoAccounts(w)
        /\ Balance(accounts, params[w].SourceAccountID) = 0

\* The invocation has issued the service call op, and the call succeeded.
Issued(w, op) == \E i \in 1..Len(calls[w]) : calls[w][i].op = op /\ calls[w][i].ok

\* Two invocations passed validation on the same source account, each against
\* the same balance, which covers either total alone but not both amounts.
SameSnapshot(w, v) ==
    /\ w # v
    /\ validAccounts[w].DestinationAccount # Nil /\ validAccounts[v].DestinationAccount # Nil
    /\ validAccounts[w].SourceAccount = validAccounts[v].SourceAccount
    /\ totalAmount(params[w].Amount, params[w].FeeAmount)
           <= Deref(validAccounts[w].SourceAccount).Balance
    /\ totalAmount(params[v].Amount, params[v].FeeAmount)
           <= Deref(validAccounts[v].SourceAccount).Balance
    /\ params[w].Amount + params[v].Amount > Deref(validAccounts[w].SourceAccount).Balance

\* C6: the accepted overdraw race.  Nothing stands between the balance read of
\* validation and the decrease: when two concurrent invocations have passed
\* validation against the same balance of the same source account, and one has
\* issued its decrease, the decrease of the other can still be issued and
\* applied, although the two amounts together exceed that balance.
C6_OverdrawRace ==
    \A w, v \in Workers :
        (SameSnapshot(w, v) /\ pc[w] = "decrease" /\ Issued(v, "UpdateBalance.DECREASE")) =>
            ENABLED (updateAccountBalances_Decrease(w) /\ pc'[w] = "increase")

\* Both invocations have issued their decrease and the source is overdrawn.
C6_Witness ==
    \E w, v \in Workers :
        /\ SameSnapshot(w, v)
        /\ pc[w] = "increase" /\ pc[v] = "increase"
        /\ Issued(w, "UpdateBalance.DECREASE") /\ Issued(v, "UpdateBalance.DECREASE")
        /\ Balance(accounts, params[w].SourceAccountID) < 0

\* validateAccount has returned: the invocation is past its two lookups.
ValidationOver(w) == pc[w] \notin {"idle", "validateSource", "validateDestination"}

\* Transfer returned the error it makes of a validateAccount error.
ValidationFailed(w) ==
    pc[w] = "failed" /\ result[w].err.type = "validate-accounts-err"

FailedWith(w, cause) == ValidationFailed(w) /\ result[w].err.cause = cause

\* A lookup of the invocation failed in the account service itself.
LookupFailed(w) ==
    \E i \in 1..Len(calls[w]) : calls[w][i].op = "GetAccountByID" /\ ~calls[w][i].ok

Exists(id) == accounts[id] # Nil
Active(id) == Deref(accounts[id]).Status = ACTIVE

\* C7: validation is read-only and gates everything.  No step of validation
\* changes a store, and when Transfer fails in validation the invocation has
\* issued nothing but account lookups: no Transaction created, no status
\* changed, no balance moved.
C7_ValidationReadOnly ==
    [][ \A w \in Workers :
          /\ (pc[w] \in {"validateSource", "validateDestination"} /\ pc'[w] # pc[w]) =>
                 (accounts' = accounts /\ transactions' = transactions)
          /\ (pc[w] # "failed" /\ pc'[w] = "failed"
                 /\ result'[w].err.type = "validate-accounts-err") =>
                 \A i \in 1..Len(calls'[w]) : calls'[w][i].op = "GetAccountByID" ]_vars

\* A re-invocation has failed on the balance check with Transactions in the store.
C7_Witness ==
    \E w \in Workers :
        /\ FailedWith(w, InsufficientBalance)
        /\ completed[w] >= 1
        /\ Len(transactions) = 3

\* C8: validation ordering.  When both accounts exist and one of them is not
\* ACTIVE, validation fails with the inactive-account error whatever the
\* source balance.
C8_InactiveBeforeBalance ==
    \A w \in Workers :
        ( /\ ValidationOver(w) /\ ~LookupFailed(w)
          /\ Exists(params[w].SourceAccountID) /\ Exists(params[w].DestinationAccountID)
          /\ ~(Active(params[w].SourceAccountID) /\ Active(params[w].DestinationAccountID)) )
            => FailedWith(w, AccountNotActive)

\* An inactive destination, an active source whose balance is below the total.
C8_Witness ==
    \E w \in Workers :
        /\ FailedWith(w, AccountNotActive)
        /\ Exists(params[w].DestinationAccountID) /\ ~Active(params[w].DestinationAccountID)
        /\ Active(params[w].SourceAccountID)
        /\ params[w].Amount + Fee(params[w]) > Balance(accounts, params[w].SourceAccountID)

\* C9 (as claimed): whenever the source or the destination account does not
\* exist, validation fails with the account-not-found error, whatever the
\* status and the balance of the other account.
C9_NotFound ==
    \A w \in Workers :
        ( /\ ValidationOver(w) /\ ~LookupFailed(w)
          /\ ~(Exists(params[w].SourceAccountID) /\ Exists(params[w].DestinationAccountID)) )
            => FailedWith(w, AccountNotFound)

\* C9 (amended): validation fails with the account-not-found error when the
\* source account does not exist, and when the destination account does not
\* exist while the source exists and is ACTIVE, whatever the balances; a
\* source that exists and is not ACTIVE fails with the inactive-account error
\* even when the destination does not exist.
C9_NotFoundUnlessSourceInactive ==
    \A w \in Workers :
        (ValidationOver(w) /\ ~LookupFailed(w)) =>
            /\ ~Exists(params[w].SourceAccountID) => FailedWith(w, AccountNotFound)
            /\ ( /\ Exists(params[w].SourceAccountID) /\ Active(params[w].SourceAccountID)
                 /\ ~Exists(params[w].DestinationAccountID) )
                   => FailedWith(w, AccountNotFound)
            /\ ( /\ Exists(params[w].SourceAccountID) /\ ~Active(params[w].SourceAccountID)
                 /\ ~Exists(params[w].DestinationAccountID) )
                   => FailedWith(w, AccountNotActive)

\* The destination is missing, the source ACTIVE and short of the total.
C9_Witness ==
    \E w \in Workers :
        /\ FailedWith(w, AccountNotFound)
        /\ Exists(params[w].SourceAccountID) /\ Active(params[w].SourceAccountID)
        /\ ~Exists(params[w].DestinationAccountID)
        /\ params[w].Amount + Fee(params[w]) > Balance(accounts, params[w].SourceAccountID)

\* C10: the balance check.  When both lookups returned an ACTIVE account,
\* validation fails with the insufficient-balance error exactly when
\* Amount + fee is greater than the balance the source lookup returned.
C10_BalanceCheck ==
    \A w \in Workers :
        ( /\ ValidationOver(w) /\ ~LookupFailed(w)
          /\ validAccounts[w].SourceAccount # Nil
          /\ validAccounts[w].DestinationAccount # Nil
          /\ Deref(validAccounts[w].SourceAccount).Status = ACTIVE
          /\ Deref(validAccounts[w].DestinationAccount).Status = ACTIVE )
            => ( FailedWith(w, InsufficientBalance) <=>
                    params[w].Amount + Fee(params[w])
                        > Deref(validAccounts[w].SourceAccount).Balance )

\* Validation has passed with a total, fee included, equal to the balance.
C10_Witness ==
    \E w \in Workers :
        /\ pc[w] = "createOutgoing"
        /\ params[w].Amount > 0 /\ Fee(params[w]) > 0
        /\ params[w].Amount + Fee(params[w]) = Deref(validAccounts[w].SourceAccount).Balance

\* The stored Transactions with a given reference ID.
Stored(ref) == WithReferenceID(transactions, ref)

\* The calls an invocation has issued so far on a given target.
CallsOn(w, target) == { i \in 1..Len(calls[w]) : calls[w][i].target = target }

\* C11: optional fee.  An invocation whose FeeAmount is nil issues no call on
\* the fee reference ID, holds no fee Transaction, leaves no Transaction of
\* type OUTGOING_FEE in the store and returns a result whose FeeTransaction is
\* nil.  An invocation whose FeeAmount is given and whose fee step succeeded
\* finds exactly one Transaction with the fee reference ID in the store: of
\* type OUTGOING_FEE, on the source account, of the fee amount.
C11_OptionalFee ==
    \A w \in Workers :
        pc[w] # "idle" =>
            IF params[w].FeeAmount = Nil
            THEN /\ CallsOn(w, params[w].FeeTransactionReferenceID) = {}
                 /\ pendingTrx[w].Fee = Nil
                 /\ \A i \in 1..Len(transactions) :
                        transactions[i].TransactionType # OUTGOINGFEE
                 /\ Returned(w) => result[w].value.FeeTransaction = Nil
            ELSE pendingTrx[w].Fee # Nil =>
                    /\ Cardinality(Stored(params[w].FeeTransactionReferenceID)) = 1
                    /\ \A i \in Stored(params[w].FeeTransactionReferenceID) :
                        /\ transactions[i].TransactionType = OUTGOINGFEE
                        /\ transactions[i].AccountID = params[w].SourceAccountID
                        /\ transactions[i].Amount = Deref(params[w].FeeAmount)
                        /\ Deref(pendingTrx[w].Fee).ID = i

\* A transfer without fee returned a result on its two Transactions, none of
\* them a fee Transaction, having issued no call on the fee reference ID.
C11_Witness ==
    \E w \in Workers :
        /\ Returned(w) /\ params[w].FeeAmount = Nil /\ params[w].Amount > 0
        /\ Len(transactions) = 2
        /\ result[w].value.FeeTransaction = Nil
        /\ CallsOn(w, params[w].FeeTransactionReferenceID) = {}

\* The reference IDs of the Transactions a transfer asks for.
ReferenceIDs(p) ==
    {p.SourceTransactionReferenceID, p.DestinationTransactionReferenceID}
        \cup (IF p.FeeAmount = Nil THEN {} ELSE {p.FeeTransactionReferenceID})

\* A Transaction handed back in a result: present, SUCCESS, with the reference ID.
Finalized(trx, ref) ==
    trx # Nil /\ Deref(trx).Status = SUCCESS /\ Deref(trx).ReferenceID = ref

\* C12: status finalization.  Whenever Transfer has returned a result, the
\* outbound and inbound Transactions, and the fee Transaction when a fee is
\* given, exist in the store under the reference IDs of the params and are
\* SUCCESS there and in the result, none of them PENDING, and the three
\* reference IDs of the result are those of the params.
C12_StatusFinalization ==
    \A w \in Workers :
        Returned(w) =>
            LET r == result[w].value
                p == params[w]
            IN  /\ r.SourceTransactionReferenceID = p.SourceTransactionReferenceID
                /\ r.DestinationTransactionReferenceID = p.DestinationTransactionReferenceID
                /\ r.FeeTransactionReferenceID = p.FeeTransactionReferenceID
                /\ Finalized(r.SourceTransaction, p.SourceTransactionReferenceID)
                /\ Finalized(r.DestinationTransaction, p.DestinationTransactionReferenceID)
                /\ p.FeeAmount # Nil =>
                       Finalized(r.FeeTransaction, p.FeeTransactionReferenceID)
                /\ \A ref \in ReferenceIDs(p) :
                       /\ Stored(ref) # {}
                       /\ \A i \in Stored(ref) : transactions[i].Status = SUCCESS

\* A transfer with a fee has returned its result: three Transactions SUCCESS.
C12_Witness ==
    \E w \in Workers :
        /\ Returned(w) /\ params[w].FeeAmount # Nil
        /\ Cardinality(ReferenceIDs(params[w])) = 3
        /\ \A ref \in ReferenceIDs(params[w]) :
               \E i \in Stored(ref) : transactions[i].Status = SUCCESS
        /\ Finalized(result[w].value.FeeTransaction, params[w].FeeTransactionReferenceID)

\* The invocation's last service call, when it failed.
FailedCall(w) ==
    IF Len(calls[w]) > 0 /\ ~calls[w][Len(calls[w])].ok
    THEN Ptr(calls[w][Len(calls[w])]) ELSE Nil

\* Transfer returned an error none of its service calls produced: one of the
\* business rules of validateAccount refused the transfer.
BusinessFailure(w) ==
    pc[w] = "failed" /\ \A i \in 1..Len(calls[w]) : calls[w][i].ok

\* C13: non-retryable classification.  The error Transfer returns when a
\* business rule refuses the transfer (account not found, account not active,
\* insufficient balance) is marked non-retryable, and so is the error it
\* returns when a find-or-create call fails; a failed find-or-create call is
\* the last service call of its invocation, which has then returned the error.
C13_NonRetryable ==
    \A w \in Workers :
        /\ BusinessFailure(w) =>
               /\ result[w].err.cause \in {AccountNotFound, AccountNotActive, InsufficientBalance}
               /\ result[w].err.nonRetryable
        /\ \A i \in 1..Len(calls[w]) :
               (calls[w][i].op = "FinderOrCreator.Call" /\ ~calls[w][i].ok) =>
                   /\ i = Len(calls[w])
                   /\ pc[w] = "failed" /\ result[w].kind = "error"
                   /\ result[w].err.nonRetryable

\* The find-or-create call of the fee Transaction failed after the outgoing
\* Transaction was materialized: Transfer returned a non-retryable error.
C13_Witness ==
    \E w \in Workers :
        /\ pc[w] = "failed" /\ FailedCall(w) # Nil
        /\ Deref(FailedCall(w)).op = "FinderOrCreator.Call"
        /\ Deref(FailedCall(w)).target = params[w].FeeTransactionReferenceID
        /\ pendingTrx[w].Outgoing # Nil
        /\ result[w].err.nonRetryable

\* What the engine sees of an error: whether it may retry, and the error type.
Classification(e) == [nonRetryable |-> e.nonRetryable, type |-> e.type]

\* A service call of the invocation observed the cancellation of the context:
\* Transfer returned the cancellation error, as it came or wrapped.
Cancelled(w) ==
    /\ pc[w] = "failed" /\ FailedCall(w) # Nil
    /\ ContextCanceled \in {result[w].err.message, result[w].err.cause}

\* C14 (as claimed): cancellation.  Once a service call has observed the
\* cancellation, that call is the last one the invocation issues, and the
\* error Transfer returns is not classified as a business-rule failure is: a
\* cancellation observed during an account lookup is not reported as the
\* non-retryable validation error.
C14_Cancellation ==
    \A w \in Workers :
        Cancelled(w) =>
            /\ \A i \in 1..Len(calls[w]) : ~calls[w][i].ok => i = Len(calls[w])
            /\ Classification(result[w].err) #
                   Classification(validateAccountsErr(Error(AccountNotFound)))

\* C15 (as claimed): infrastructure failures are retryable.  When a call of
\* GetAccountByID, UpdateBalance or UpdateTransactionStatus fails, the error
\* Transfer returns is not marked non-retryable.
C15_InfrastructureRetryable ==
    \A w \in Workers :
        (/\ pc[w] = "failed" /\ FailedCall(w) # Nil
         /\ Deref(FailedCall(w)).op \in
                {"GetAccountByID", "UpdateBalance.DECREASE", "UpdateBalance.INCREASE",
                 "UpdateTransactionStatus"})
            => ~result[w].err.nonRetryable

\* The positions in an invocation's log of the calls of one operation.
CallsOf(w, op) == { i \in 1..Len(calls[w]) : calls[w][i].op = op }

\* No other invocation has set a status.
NoOtherFinalizer(w) ==
    \A v \in Workers \ {w} : CallsOf(v, "UpdateTransactionStatus") = {}

\* The log of the balance updater: at most one decrease and one increase, the
\* increase right after a decrease that succeeded, both of params.Amount, on
\* the source and on the destination account.
BalanceUpdaterOrder(w) ==
    /\ Cardinality(CallsOf(w, "UpdateBalance.DECREASE")) <= 1
    /\ Cardinality(CallsOf(w, "UpdateBalance.INCREASE")) <= 1
    /\ \A i \in CallsOf(w, "UpdateBalance.DECREASE") :
           calls[w][i].target = params[w].SourceAccountID /\ calls[w][i].arg = params[w].Amount
    /\ \A i \in CallsOf(w, "UpdateBalance.INCREASE") :
           /\ calls[w][i].target = params[w].DestinationAccountID
           /\ calls[w][i].arg = params[w].Amount
           /\ i > 1 /\ calls[w][i - 1].op = "UpdateBalance.DECREASE" /\ calls[w][i - 1].ok

\* The increase failed after the decrease: Transfer has returned an error, no
\* status update was issued, and the Transactions of the transfer, all
\* materialized, are PENDING unless another invocation finalized them.
IncreaseFailed(w) ==
    /\ pc[w] = "failed" /\ FailedCall(w) # Nil
    /\ Deref(FailedCall(w)).op = "UpdateBalance.INCREASE"

NotCompensated(w) ==
    IncreaseFailed(w) =>
        /\ result[w].kind = "error"
        /\ CallsOf(w, "UpdateTransactionStatus") = {}
        /\ { h.ref : h \in Held(w) } = ReferenceIDs(params[w])
        /\ NoOtherFinalizer(w) =>
               \A h \in Held(w) : transactions[Deref(h.trx).ID].Status = PENDING
        /\ (TwoAccounts(w) /\ \A v \in Workers \ {w} : pc[v] = "idle") =>
               accounts = UpdateBalance(initial, params[w].SourceAccountID,
                                        params[w].Amount, DECREASE)

\* What the two steps of the balance updater do to the stores.
BalanceUpdaterStep(w) ==
    /\ (pc[w] = "decrease" /\ pc'[w] = "increase") =>
           /\ accounts' = UpdateBalance(accounts, params[w].SourceAccountID,
                                        params[w].Amount, DECREASE)
           /\ transactions' = transactions
    /\ (pc[w] = "decrease" /\ pc'[w] = "failed") =>
           /\ accounts' = accounts /\ transactions' = transactions
           /\ result'[w].kind = "error"
           /\ CallsOf(w, "UpdateBalance.INCREASE")' = {}
    /\ (pc[w] = "increase" /\ pc'[w] = "finalizeOutgoing") =>
           /\ accounts' = UpdateBalance(accounts, params[w].DestinationAccountID,
                                        params[w].Amount, INCREASE)
           /\ transactions' = transactions
    /\ (pc[w] = "increase" /\ pc'[w] = "failed") =>
           /\ accounts' = accounts /\ transactions' = transactions
           /\ result'[w].kind = "error"

\* C16: balance updater order and non-compensation.  The decrease of the
\* source by params.Amount is issued before the increase of the destination by
\* the same amount; a failed decrease changes no balance and ends the
\* invocation with no increase issued; a failed increase makes Transfer return
\* an error with the source left decreased, the destination unchanged, no
\* further balance update issued and the Transactions of the transfer PENDING.
C16_BalanceUpdater ==
    /\ [](\A w \in Workers : BalanceUpdaterOrder(w) /\ NotCompensated(w))
    /\ [][\A w \in Workers : BalanceUpdaterStep(w)]_vars

\* The increase failed after the decrease of a positive amount, alone in the
\* system: the source is down by the amount, the destination as it was, and the
\* three Transactions are PENDING.
C16_Witness ==
    \E w \in Workers :
        /\ IncreaseFailed(w) /\ TwoAccounts(w) /\ params[w].Amount > 0
        /\ params[w].FeeAmount # Nil
        /\ \A v \in Workers \ {w} : pc[v] = "idle"
        /\ Balance(accounts, params[w].SourceAccountID) =
               Balance(initial, params[w].SourceAccountID) - params[w].Amount
        /\ Balance(accounts, params[w].DestinationAccountID) =
               Balance(initial, params[w].DestinationAccountID)
        /\ Len(transactions) = 3
        /\ \A i \in 1..3 : transactions[i].Status = PENDING

\* The reference IDs finalizeTransactions updates, in its order.
FinalizerTargets(p) ==
    << p.SourceTransactionReferenceID, p.DestinationTransactionReferenceID >>
        \o (IF p.FeeAmount = Nil THEN << >> ELSE << p.FeeTransactionReferenceID >>)

\* The number of status updates an invocation has issued.
Updates(w) == Cardinality(CallsOf(w, "UpdateTransactionStatus"))

\* The status updates of an invocation are the last calls of its log, on the
\* outbound, the inbound and then the fee Transaction, each after the success
\* of the one before; one that failed is the last, and Transfer has returned
\* an error and no result.
FinalizerOrder(w) ==
    Updates(w) > 0 =>
        LET n == Updates(w)
            first == Len(calls[w]) - n
        IN  /\ n <= Len(FinalizerTargets(params[w]))
            /\ \A k \in 1..n :
                   /\ calls[w][first + k].op = "UpdateTransactionStatus"
                   /\ calls[w][first + k].target = FinalizerTargets(params[w])[k]
                   /\ k < n => calls[w][first + k].ok
            /\ ~calls[w][first + n].ok =>
                   pc[w] = "failed" /\ result[w].kind = "error"

\* A status update failed.
UpdateFailed(w) ==
    /\ pc[w] = "failed" /\ FailedCall(w) # Nil
    /\ Deref(FailedCall(w)).op = "UpdateTransactionStatus"

\* After the failed update, with no other invocation finalizing, exactly the
\* Transactions updated before it are SUCCESS; it and the later ones PENDING.
PartialAbort(w) ==
    (UpdateFailed(w) /\ NoOtherFinalizer(w)) =>
        \A k \in 1..Len(FinalizerTargets(params[w])) :
            /\ Stored(FinalizerTargets(params[w])[k]) # {}
            /\ \A i \in Stored(FinalizerTargets(params[w])[k]) :
                   transactions[i].Status = IF k < Updates(w) THEN SUCCESS ELSE PENDING

\* What a step of the finalizer does to the store: a successful update sets the
\* one Transaction SUCCESS, leaving the store as it is when the Transaction
\* was SUCCESS already; a failed one changes nothing.
FinalizerStep(w) ==
    (pc[w] \in {"finalizeOutgoing", "finalizeIncoming", "finalizeFee"} /\ pc'[w] # pc[w]) =>
        LET call == calls'[w][Len(calls'[w])]
        IN  IF call.ok
            THEN /\ transactions' = [transactions EXCEPT ![call.arg].Status = SUCCESS]
                 /\ transactions[call.arg].Status = SUCCESS => transactions' = transactions
                 /\ transactions[call.arg].ReferenceID = call.target
            ELSE transactions' = transactions /\ pc'[w] = "failed"

\* C17: finalizer order and partial abort.  The status updates are issued in
\* the order outbound, inbound, fee (when there is one); the first update that
\* fails ends the invocation, Transfer returning an error and no result, with
\* exactly the Transactions before the failing one SUCCESS and the failing one
\* and those after it PENDING; an update of a Transaction that is SUCCESS
\* already leaves it SUCCESS.
C17_Finalizer ==
    /\ [](\A w \in Workers : FinalizerOrder(w) /\ PartialAbort(w))
    /\ [][\A w \in Workers : FinalizerStep(w)]_vars

\* The update of the inbound Transaction failed in a transfer with a fee: the
\* outbound Transaction is SUCCESS, the inbound and the fee Transaction PENDING.
C17_Witness ==
    \E w \in Workers :
        /\ UpdateFailed(w) /\ NoOtherFinalizer(w)
        /\ params[w].FeeAmount # Nil /\ Updates(w) = 2
        /\ \E i \in Stored(params[w].SourceTransactionReferenceID) :
               transactions[i].Status = SUCCESS
        /\ \E i \in Stored(params[w].DestinationTransactionReferenceID) :
               transactions[i].Status = PENDING
        /\ \E i \in Stored(params[w].FeeTransactionReferenceID) :
               transactions[i].Status = PENDING

\* The service calls of a Transfer in which nothing fails, in order: the
\* operation and the account or reference ID it names.
StepOrder(p) ==
    LET step(op, target) == [op |-> op, target |-> target]
        fee(op) == IF p.FeeAmount = Nil THEN << >>
                   ELSE << step(op, p.FeeTransactionReferenceID) >>
    IN  << step("GetAccountByID", p.SourceAccountID),
           step("GetAccountByID", p.DestinationAccountID),
           step("FinderOrCreator.Call", p.SourceTransactionReferenceID) >>
        \o fee("FinderOrCreator.Call")
        \o << step("FinderOrCreator.Call", p.DestinationTransactionReferenceID),
               step("UpdateBalance.DECREASE", p.SourceAccountID),
               step("UpdateBalance.INCREASE", p.DestinationAccountID),
               step("UpdateTransactionStatus", p.SourceTransactionReferenceID),
               step("UpdateTransactionStatus", p.DestinationTransactionReferenceID) >>
        \o fee("UpdateTransactionStatus")

\* C18: strict forward step order.  The service calls of an invocation are a
\* prefix of the order lookups, find-or-creates, decrease, increase, status
\* updates, each issued after the success of all before it: no find-or-create
\* before both lookups, no balance update before the Transactions are
\* materialized, no status update before both balance updates.  A call that
\* failed, or a validation that refused, is followed by no call: Transfer has
\* returned the error.  Transfer returns a result exactly when every call of
\* the order was issued and succeeded, and until it has returned it can take
\* its next step, so it ends after at most that many calls.
C18_ForwardOrder ==
    \A w \in Workers :
        pc[w] # "idle" =>
            LET order == StepOrder(params[w])
                n == Len(calls[w])
            IN  /\ n <= Len(order)
                /\ \A i \in 1..n :
                       /\ calls[w][i].op = order[i].op
                       /\ calls[w][i].target = order[i].target
                       /\ i < n => calls[w][i].ok
                /\ FailedCall(w) # Nil => pc[w] = "failed"
                /\ BusinessFailure(w) =>
                       n <= 2 /\ \A i \in 1..n : calls[w][i].op = "GetAccountByID"
                /\ Returned(w) <=> (n = Len(order) /\ FailedCall(w) = Nil)
                /\ pc[w] = "failed" <=> (result[w].kind = "error")
                /\ Running(w) => (n < Len(order) /\ ENABLED Step(w))

\* A transfer with a fee has returned its result after all ten calls.
C18_Witness ==
    \E w \in Workers :
        /\ Returned(w) /\ params[w].FeeAmount # Nil
        /\ Len(calls[w]) = Len(StepOrder(params[w]))
        /\ \A i \in 1..Len(calls[w]) : calls[w][i].ok
        /\ Cardinality(CallsOf(w, "FinderOrCreator.Call")) = 3
        /\ Cardinality(CallsOf(w, "UpdateTransactionStatus")) = 3

\* What a step may do to the Transaction store: keep every Transaction, with
\* its identity and contents, in the status it has or in SUCCESS, and add
\* Transactions that are PENDING.
Lifecycle ==
    /\ Len(transactions') >= Len(transactions)
    /\ \A i \in 1..Len(transactions) :
           \/ transactions'[i] = transactions[i]
           \/ transactions'[i] = [transactions[i] EXCEPT !.Status = SUCCESS]
    /\ \A i \in (Len(transactions) + 1)..Len(transactions') :
           transactions'[i].Status = PENDING

\* C19: Transaction lifecycle.  Every Transaction Transfer creates is created
\* PENDING, the only status Transfer moves a Transaction to is SUCCESS, and in
\* no state that invocations of Transfer reach, failed and repeated ones
\* included, is a Transaction in another status (FAILED), removed, or back
\* from SUCCESS to PENDING.
C19_Lifecycle ==
    /\ [](\A i \in 1..Len(transactions) : transactions[i].Status \in {PENDING, SUCCESS})
    /\ [][Lifecycle]_vars

\* A re-invocation of a transfer that has returned a result found its three
\* Transactions again, and they are still SUCCESS.
C19_Witness ==
    \E w \in Workers :
        /\ completed[w] >= 1 /\ pc[w] = "decrease"
        /\ Len(transactions) = 3
        /\ \A i \in 1..3 : transactions[i].Status = SUCCESS
        /\ \A h \in Held(w) : Deref(h.trx).Status = SUCCESS

\* The sum of the balances of the accounts of a store.
RECURSIVE TotalOver(_, _)
TotalOver(accts, ids) ==
    IF ids = {} THEN 0
    ELSE LET id == CHOOSE x \in ids : TRUE
         IN  (IF accts[id] = Nil THEN 0 ELSE Balance(accts, id))
                 + TotalOver(accts, ids \ {id})

Total(accts) == TotalOver(accts, AccountIDs)

\* The invocation's decrease of the source has been applied and its increase
\* of the destination has not.
InFlight(w) ==
    /\ pc[w] # "idle"
    /\ Issued(w, "UpdateBalance.DECREASE") /\ ~Issued(w, "UpdateBalance.INCREASE")

\* The sum of the amounts of the invocations in flight among ws.
RECURSIVE AmountInFlight(_)
AmountInFlight(ws) ==
    IF ws = {} THEN 0
    ELSE LET w == CHOOSE x \in ws : TRUE
         IN  (IF InFlight(w) THEN params[w].Amount ELSE 0) + AmountInFlight(ws \ {w})

\* C20: total-money invariant.  In every state the sum of all balances is the
\* initial sum less the amounts of the invocations whose decrease has been
\* applied and whose increase has not, hence never above the initial sum; an
\* invocation that has returned a result, with or without fee, or that failed
\* before its decrease, takes nothing from the sum.
C20_TotalMoney ==
    /\ Total(accounts) = Total(initial) - AmountInFlight(Workers)
    /\ Total(accounts) <= Total(initial)
    /\ \A w \in Workers :
           (Returned(w) \/ (pc[w] = "failed" /\ ~Issued(w, "UpdateBalance.DECREASE")))
               => ~InFlight(w)
    /\ (\A w \in Workers : ~InFlight(w)) => Total(accounts) = Total(initial)

\* One transfer with a fee has returned its result and the other failed in
\* its increase after its decrease: the sum is short of the amount of the
\* second only.
C20_Witness ==
    \E w, v \in Workers :
        /\ Returned(w) /\ Fee(params[w]) > 0 /\ params[w].Amount > 0
        /\ IncreaseFailed(v) /\ params[v].Amount > 0
        /\ Total(accounts) = Total(initial) - params[v].Amount
====
